---- MODULE Spec2Model ----
(***************************************************************************)
(* A model of moto's DynamoDB typed-value algebra (DynamoType) and of its  *)
(* update-expression tokenizer (ExpressionTokenizer).                      *)
(*                                                                         *)
(* Python text is a sequence of one-character strings, so that indexing,   *)
(* slicing, prefixes and byte lengths are computed rather than assumed.    *)
(* A Python scalar is a record [py, val] carrying its Python type; a       *)
(* Python list is a sequence, a Python dict a function from its keys.      *)
(***************************************************************************)
EXTENDS Integers, Sequences, FiniteSets, TLC

VARIABLES
    self,                   \* the DynamoType instance operated on
    last,                   \* the last DynamoType operation: its arguments and outcome
    input_expression_str,   \* ExpressionTokenizer.input_expression_str
    pos,                    \* characters of the input consumed by the for loop
    token_list,             \* ExpressionTokenizer.token_list
    staged_characters,      \* ExpressionTokenizer.staged_characters
    outcome                 \* what make_list has done: scanning, returned or raised

vars == <<self, last, input_expression_str, pos, token_list, staged_characters, outcome>>
valueVars == <<self, last>>
tokenizerVars == <<input_expression_str, pos, token_list, staged_characters, outcome>>

-----------------------------------------------------------------------------
(* Bounds *)

\* Longest Python list built or grown by the value model.
MaxLen == 2
\* Most projection expressions given to one filter call.
MaxExprs == 2
\* Longest free-form input string given to the tokenizer.
MaxInput == 3

-----------------------------------------------------------------------------
(* Python text *)

PyStr(s) == [py |-> "str", val |-> s]
PyBool(b) == [py |-> "bool", val |-> b]
PyInt(i) == [py |-> "int", val |-> i]
PyFloat(h) == [py |-> "float", val |-> h]     \* val counts halves: 3 is 1.5

Digits == {"0", "1", "2", "3", "4", "5", "6", "7", "8", "9"}
AsciiLetters ==
    { "a", "b", "c", "d", "e", "f", "g", "h", "i", "j", "k", "l", "m",
      "n", "o", "p", "q", "r", "s", "t", "u", "v", "w", "x", "y", "z",
      "A", "B", "C", "D", "E", "F", "G", "H", "I", "J", "K", "L", "M",
      "N", "O", "P", "Q", "R", "S", "T", "U", "V", "W", "X", "Y", "Z" }
\* Alphanumeric for str.isalnum, outside ASCII: two bytes each in UTF-8.
UnicodeLetters == {"é"}

\* "c in s" for a one-character c
Contains(s, c) == \E i \in 1..Len(s) : s[i] = c

\* s.index(c): the 0-based position of the first c
index(s, c) == (CHOOSE i \in 1..Len(s) : s[i] = c /\ \A j \in 1..(i - 1) : s[j] # c) - 1

\* s[:n] and s[n:] for 0 <= n
SliceTo(s, n) == SubSeq(s, 1, IF n < Len(s) THEN n ELSE Len(s))
SliceFrom(s, n) == SubSeq(s, n + 1, Len(s))

startswith(s, p) == Len(p) <= Len(s) /\ SubSeq(s, 1, Len(p)) = p

RECURSIVE SumSeq(_)
SumSeq(ns) == IF ns = <<>> THEN 0 ELSE Head(ns) + SumSeq(Tail(ns))

RECURSIVE SumOver(_, _)
SumOver(f, keys) ==
    IF keys = {} THEN 0
    ELSE LET k == CHOOSE x \in keys : TRUE IN f[k] + SumOver(f, keys \ {k})

\* moto.dynamodb2.models.utilities.bytesize: len(val.encode("utf-8"))
bytesize(s) == SumSeq([i \in 1..Len(s) |-> IF s[i] \in UnicodeLetters THEN 2 ELSE 1])

-----------------------------------------------------------------------------
(* DDBType *)

BINARY_SET == "BS"
NUMBER_SET == "NS"
STRING_SET == "SS"
DDB_STRING == "S"
NUMBER == "N"
MAP == "M"
LIST == "L"
DDB_BOOLEAN == "BOOL"
BINARY == "B"
NULL == "NULL"

-----------------------------------------------------------------------------
(* DDBTypeConversion *)

LowerCase == <<"a", "b", "c", "d", "e", "f", "g", "h", "i", "j", "k", "l", "m", "n", "o", "p", "q", "r", "s", "t", "u", "v", "w", "x", "y", "z">>
UpperCase == <<"A", "B", "C", "D", "E", "F", "G", "H", "I", "J", "K", "L", "M", "N", "O", "P", "Q", "R", "S", "T", "U", "V", "W", "X", "Y", "Z">>

\* str.upper() and str.lower() on ASCII text
upper(s) ==
    [i \in 1..Len(s) |->
        IF \E n \in 1..26 : LowerCase[n] = s[i]
        THEN UpperCase[CHOOSE n \in 1..26 : LowerCase[n] = s[i]]
        ELSE s[i]]
lower(s) ==
    [i \in 1..Len(s) |->
        IF \E n \in 1..26 : UpperCase[n] = s[i]
        THEN LowerCase[CHOOSE n \in 1..26 : UpperCase[n] = s[i]]
        ELSE s[i]]

\* str.replace(old, new) for one-character old and new
replace(s, old, new) == [i \in 1..Len(s) |-> IF s[i] = old THEN new ELSE s[i]]

\* The text of a tag code
TagText(tag) ==
    CASE tag = BINARY_SET -> <<"B", "S">>
      [] tag = NUMBER_SET -> <<"N", "S">>
      [] tag = STRING_SET -> <<"S", "S">>
      [] tag = DDB_STRING -> <<"S">>
      [] tag = NUMBER -> <<"N">>
      [] tag = MAP -> <<"M">>
      [] tag = LIST -> <<"L">>
      [] tag = DDB_BOOLEAN -> <<"B", "O", "O", "L">>
      [] tag = BINARY -> <<"B">>
      [] tag = NULL -> <<"N", "U", "L", "L">>

\* DDBType.__dict__.items(): the ten attributes and what a class body adds
\* (whose values the mapping never reads)
DDBTypeItems ==
    { <<<<"B", "I", "N", "A", "R", "Y", "_", "S", "E", "T">>, TagText(BINARY_SET)>>,
      <<<<"N", "U", "M", "B", "E", "R", "_", "S", "E", "T">>, TagText(NUMBER_SET)>>,
      <<<<"S", "T", "R", "I", "N", "G", "_", "S", "E", "T">>, TagText(STRING_SET)>>,
      <<<<"S", "T", "R", "I", "N", "G">>, TagText(DDB_STRING)>>,
      <<<<"N", "U", "M", "B", "E", "R">>, TagText(NUMBER)>>,
      <<<<"M", "A", "P">>, TagText(MAP)>>,
      <<<<"L", "I", "S", "T">>, TagText(LIST)>>,
      <<<<"B", "O", "O", "L", "E", "A", "N">>, TagText(DDB_BOOLEAN)>>,
      <<<<"B", "I", "N", "A", "R", "Y">>, TagText(BINARY)>>,
      <<<<"N", "U", "L", "L">>, TagText(NULL)>>,
      <<<<"_", "_", "m", "o", "d", "u", "l", "e", "_", "_">>, <<>>>>,
      <<<<"_", "_", "d", "o", "c", "_", "_">>, <<>>>>,
      <<<<"_", "_", "d", "i", "c", "t", "_", "_">>, <<>>>>,
      <<<<"_", "_", "w", "e", "a", "k", "r", "e", "f", "_", "_">>, <<>>>> }

\* the mapping built without key.replace("_", " ")
human_type_mapping_no_replace ==
    LET items == { item \in DDBTypeItems : upper(item[1]) = item[1] }
    IN  [val \in { item[2] : item \in items } |->
            (CHOOSE item \in items : item[2] = val)[1]]

_human_type_mapping ==
    LET items == { item \in DDBTypeItems : upper(item[1]) = item[1] }
    IN  [val \in { item[2] : item \in items } |->
            replace((CHOOSE item \in items : item[2] = val)[1], "_", " ")]

\* cls._human_type_mapping.get(abbreviated_type, abbreviated_type)
get_human_type(abbreviated_type) ==
    IF abbreviated_type \in DOMAIN _human_type_mapping
    THEN _human_type_mapping[abbreviated_type]
    ELSE abbreviated_type

-----------------------------------------------------------------------------
(* DynamoType *)

is_number(v) == v.type = NUMBER
is_set(v) == v.type \in {STRING_SET, NUMBER_SET, BINARY_SET}
is_list(v) == v.type = LIST
is_map(v) == v.type = MAP

\* type(x) == DynamoType, as against the one-key dict of the wire format
IsDynamoType(x) == DOMAIN x = {"type", "value"}

\* The one-key dict {tag: raw}
Dict(tag, raw) == (tag :> raw)

RECURSIVE DynamoType(_)
DynamoType(type_as_dict) ==
    LET type == IF IsDynamoType(type_as_dict) THEN type_as_dict.type
                ELSE CHOOSE k \in DOMAIN type_as_dict : TRUE
        value == IF IsDynamoType(type_as_dict) THEN type_as_dict.value
                 ELSE type_as_dict[type]
    IN  IF type = LIST
        THEN [type |-> type, value |-> [i \in 1..Len(value) |-> DynamoType(value[i])]]
        ELSE IF type = MAP
        THEN [type |-> type, value |-> [k \in DOMAIN value |-> DynamoType(value[k])]]
        ELSE [type |-> type, value |-> value]

\* self.type[0]: the first character of the tag's code
FirstCharOfTag(tag) ==
    CASE tag \in {STRING_SET, DDB_STRING} -> "S"
      [] tag \in {NUMBER_SET, NUMBER, NULL} -> "N"
      [] tag \in {BINARY_SET, BINARY, DDB_BOOLEAN} -> "B"
      [] tag = MAP -> "M"
      [] tag = LIST -> "L"

\* to_json keyed by the first character of the tag instead of the tag
to_json_first_char(v) == Dict(FirstCharOfTag(v.type), v.value)

to_json(v) == Dict(v.type, v.value)

__eq__(a, b) == a.type = b.type /\ a.value = b.value

\* What a method call did: the exception it raised ("None" if none), the value
\* it returned (<<>> if none) and the instance as the call left it.
Raise(v, exc) == [self |-> v, raised |-> exc, ret |-> <<>>]
Return(v, x) == [self |-> v, raised |-> "None", ret |-> <<x>>]
ReturnNone(v) == [self |-> v, raised |-> "None", ret |-> <<>>]

\* nested roots cut at the last "." instead of the first
nested_projections_last_dot(projection_expressions) ==
    { SliceTo(expr, Len(expr) - 1 - index([i \in 1..Len(expr) |-> expr[Len(expr) + 1 - i]], ".")) :
        expr \in {e \in projection_expressions : Contains(e, ".")} }

nested_projections(projection_expressions) ==
    { SliceTo(expr, index(expr, ".")) :
        expr \in {e \in projection_expressions : Contains(e, ".")} }

relevant_expressions(projection_expressions, attr) ==
    { SliceFrom(expr, Len(attr \o <<".">>)) :
        expr \in {e \in projection_expressions : startswith(e, attr \o <<".">>)} }

\* projection_expressions is a Python list that the method only tests
\* membership of and iterates over: a set here.
RECURSIVE filter(_, _)
filter(v, projection_expressions) ==
    IF is_map(v)
    THEN LET expressions_to_delete ==
                 { attr \in DOMAIN v.value :
                     /\ attr \notin projection_expressions
                     /\ attr \notin nested_projections(projection_expressions) }
             kept == DOMAIN v.value \ expressions_to_delete
         IN  [type |-> v.type,
              value |-> [attr \in kept |->
                  IF attr \in nested_projections(projection_expressions)
                  THEN filter(v.value[attr],
                              relevant_expressions(projection_expressions, attr))
                  ELSE v.value[attr]]]
    ELSE v

-----------------------------------------------------------------------------
(* Numbers: int(text), float(text) and "{v}".format(v=number).  A float is *)
(* kept as a count of halves, exact in binary floating point; Number text  *)
(* with a decimal point has one fractional digit, 0 or 5.                  *)

DigitValue(c) == CHOOSE n \in 0..9 : <<"0", "1", "2", "3", "4", "5", "6", "7", "8", "9">>[n + 1] = c

RECURSIVE NatOfDigits(_)
NatOfDigits(s) ==
    IF s = <<>> THEN 0
    ELSE 10 * NatOfDigits(SubSeq(s, 1, Len(s) - 1)) + DigitValue(s[Len(s)])

int(s) == IF s[1] = "-" THEN 0 - NatOfDigits(Tail(s)) ELSE NatOfDigits(s)

float(s) ==
    LET neg == s[1] = "-"
        body == IF neg THEN Tail(s) ELSE s
        whole == NatOfDigits(SliceTo(body, index(body, ".")))
        halves == 2 * whole + (IF body[Len(body)] = "5" THEN 1 ELSE 0)
    IN  IF neg THEN 0 - halves ELSE halves

RECURSIVE DigitsOfNat(_)
DigitsOfNat(n) ==
    IF n < 10 THEN << <<"0", "1", "2", "3", "4", "5", "6", "7", "8", "9">>[n + 1] >>
    ELSE Append(DigitsOfNat(n \div 10), <<"0", "1", "2", "3", "4", "5", "6", "7", "8", "9">>[(n % 10) + 1])

\* self_value = float(self.value) if "." in self.value else int(self.value)
ParseNumber(s) == IF Contains(s, ".") THEN PyFloat(float(s)) ELSE PyInt(int(s))

Halves(n) == IF n.py = "float" THEN n.val ELSE 2 * n.val

PyAdd(a, b) ==
    IF a.py = "int" /\ b.py = "int" THEN PyInt(a.val + b.val)
    ELSE PyFloat(Halves(a) + Halves(b))

PySub(a, b) ==
    IF a.py = "int" /\ b.py = "int" THEN PyInt(a.val - b.val)
    ELSE PyFloat(Halves(a) - Halves(b))

\* "{v}".format(v=n)
Format(n) ==
    LET mag == IF n.val < 0 THEN 0 - n.val ELSE n.val
        sign == IF n.val < 0 THEN <<"-">> ELSE <<>>
    IN  IF n.py = "int" THEN sign \o DigitsOfNat(mag)
        ELSE sign \o DigitsOfNat(mag \div 2) \o <<".">>
                  \o (IF mag % 2 = 1 THEN <<"5">> ELSE <<"0">>)

\* __add__ with its two checks in the other order
add_checks_swapped(v, other) ==
    IF ~is_number(v) THEN Raise(v, "IncorrectDataType")
    ELSE IF v.type # other.type THEN Raise(v, "TypeError")
    ELSE Return(v, DynamoType(Dict(NUMBER,
             PyStr(Format(PyAdd(ParseNumber(v.value.val), ParseNumber(other.value.val)))))))

__add__(v, other) ==
    IF v.type # other.type THEN Raise(v, "TypeError")
    ELSE IF ~is_number(v) THEN Raise(v, "IncorrectDataType")
    ELSE Return(v, DynamoType(Dict(NUMBER,
             PyStr(Format(PyAdd(ParseNumber(v.value.val), ParseNumber(other.value.val)))))))

__sub__(v, other) ==
    IF v.type # other.type THEN Raise(v, "TypeError")
    ELSE IF v.type # NUMBER THEN Raise(v, "TypeError")
    ELSE Return(v, DynamoType(Dict(NUMBER,
             PyStr(Format(PySub(ParseNumber(v.value.val), ParseNumber(other.value.val)))))))

-----------------------------------------------------------------------------
(* Indexed mutation *)

\* list.__setitem__(i, x) of Python: a negative index counts from the end,
\* an index outside -len..len-1 raises IndexError.
ListAssign(v, i, x) ==
    LET n == Len(v.value)
        at == IF i < 0 THEN i + n ELSE i
    IN  IF at < 0 \/ at >= n THEN Raise(v, "IndexError")
        ELSE ReturnNone([v EXCEPT !.value = [v.value EXCEPT ![at + 1] = x]])

\* dict.__setitem__(k, x)
DictAssign(v, k, x) ==
    ReturnNone([v EXCEPT !.value =
        [a \in DOMAIN v.value \cup {k} |-> IF a = k THEN x ELSE v.value[a]]])

\* __setitem__ appending only for an index beyond the length
setitem_off_by_one(v, key, value) ==
    IF key.py = "int"
    THEN IF is_list(v)
         THEN IF key.val > Len(v.value)
              THEN ReturnNone([v EXCEPT !.value = Append(v.value, value)])
              ELSE ListAssign(v, key.val, value)
         ELSE ReturnNone(v)
    ELSE IF key.py = "str"
    THEN IF is_map(v) THEN DictAssign(v, key.val, value) ELSE ReturnNone(v)
    ELSE Raise(v, "NotImplementedError")

__setitem__(v, key, value) ==
    IF key.py = "int"
    THEN IF is_list(v)
         THEN IF key.val >= Len(v.value)
              THEN ReturnNone([v EXCEPT !.value = Append(v.value, value)])
              ELSE ListAssign(v, key.val, value)
         ELSE ReturnNone(v)
    ELSE IF key.py = "str"
    THEN IF is_map(v) THEN DictAssign(v, key.val, value) ELSE ReturnNone(v)
    ELSE Raise(v, "NotImplementedError")

-----------------------------------------------------------------------------
(* Size accounting *)

\* a Map entry sized without its key
map_entry_size_without_key(k, value_size) == value_size

\* bytesize(k) + DynamoType(v).size()
map_entry_size(k, value_size) == bytesize(k) + value_size

RECURSIVE size(_)
size(v) ==
    IF is_number(v) THEN Len(v.value.val)
    ELSE IF is_set(v)
    THEN LET sub_type == FirstCharOfTag(v.type)
         IN  SumSeq([i \in 1..Len(v.value) |->
                        size(DynamoType(Dict(sub_type, v.value[i])))])
    ELSE IF is_list(v) THEN SumSeq([i \in 1..Len(v.value) |-> size(v.value[i])])
    ELSE IF is_map(v)
    THEN SumOver([k \in DOMAIN v.value |-> map_entry_size(k, size(DynamoType(v.value[k])))],
                 DOMAIN v.value)
    ELSE IF v.value.py = "bool" THEN 1
    ELSE bytesize(v.value.val)

-----------------------------------------------------------------------------
(* The values of the wire format that instances are constructed from *)

PartialMaps(keys, vals) == UNION { [d -> vals] : d \in SUBSET keys }

SeqsUpTo(vals, n) == UNION { [1..k -> vals] : k \in 0..n }

WireString == Dict(DDB_STRING, PyStr(<<"b", "b">>))
WireNumber == Dict(NUMBER, PyStr(<<"1", "2", "3", "4", "5">>))

WireNumbers ==
    { WireNumber,
      Dict(NUMBER, PyStr(<<"3">>)),
      Dict(NUMBER, PyStr(<<"-", "7">>)),
      Dict(NUMBER, PyStr(<<"1", ".", "5">>)) }

WireScalars ==
    WireNumbers \cup
    { WireString,
      Dict(DDB_STRING, PyStr(<<"é">>)),
      Dict(BINARY, PyStr(<<"a">>)),
      Dict(DDB_BOOLEAN, PyBool(TRUE)),
      Dict(DDB_BOOLEAN, PyBool(FALSE)),
      Dict(NULL, PyBool(TRUE)),
      Dict(STRING_SET, <<PyStr(<<"a">>), PyStr(<<"é", "b">>)>>),
      Dict(NUMBER_SET, <<PyStr(<<"1">>), PyStr(<<"2", "3">>)>>),
      Dict(BINARY_SET, <<PyStr(<<"a">>)>>) }

\* Maps nested three deep: {a, b, b.c} over {c, d} over {c, d}
WireMaps3 == { Dict(MAP, m) : m \in PartialMaps({<<"c">>, <<"d">>}, {WireString}) }

WireMaps2 ==
    { Dict(MAP, m) :
        m \in { f \in PartialMaps({<<"c">>, <<"d">>}, {WireNumber} \cup WireMaps3) :
                  <<"d">> \in DOMAIN f => f[<<"d">>] = WireNumber } }

\* The outer maps also have a key that itself holds a "."
WireMaps1 ==
    { Dict(MAP, m) :
        m \in { f \in PartialMaps({<<"a">>, <<"b">>, <<"b", ".", "c">>},
                        {WireString, WireNumber, Dict(LIST, <<WireString>>)} \cup WireMaps2) :
                  /\ <<"a">> \in DOMAIN f => f[<<"a">>] \in {WireString, WireNumber}
                  /\ <<"b", ".", "c">> \in DOMAIN f => f[<<"b", ".", "c">>] = WireString } }

WireLists ==
    { Dict(LIST, l) :
        l \in SeqsUpTo({WireString, WireNumber, Dict(MAP, (<<"a">> :> WireString))}, MaxLen) }

WireValues == WireScalars \cup WireMaps1 \cup WireLists

\* Arguments of the operations
Keys ==
    { PyInt(i) : i \in (0 - (MaxLen + 1))..(MaxLen + 1) }
    \cup { PyStr(<<"a">>), PyStr(<<"c">>), PyFloat(3) }

NewValues == { DynamoType(Dict(DDB_STRING, PyStr(<<"v">>))) }


Expressions == { <<"a">>, <<"b">>, <<"b", ".", "c">>, <<"b", ".", "d">>, <<"b", ".", "c", ".", "c">> }

ProjectionLists == { P \in SUBSET Expressions : Cardinality(P) <= MaxExprs }

Operands ==
    { DynamoType(w) : w \in WireNumbers \cup {WireString, Dict(DDB_BOOLEAN, PyBool(TRUE))} }

-----------------------------------------------------------------------------
(* The typed value as a state machine: an instance is constructed from a   *)
(* wire value, then operated on.                                           *)

Idle ==
    /\ input_expression_str = <<>>
    /\ pos = 0
    /\ token_list = <<>>
    /\ staged_characters = <<>>
    /\ outcome = [status |-> "idle"]

Called(op, args, r) ==
    /\ self' = r.self
    /\ last' = [op |-> op, args |-> args, pre |-> self, raised |-> r.raised, ret |-> r.ret]
    /\ UNCHANGED tokenizerVars

Init ==
    /\ \E w \in WireValues :
         /\ self = DynamoType(w)
         /\ last = [op |-> "__init__", args |-> <<w>>, pre |-> DynamoType(w),
                    raised |-> "None", ret |-> <<>>]
    /\ Idle

SetItem ==
    \E key \in Keys, value \in NewValues :
        \* lists are let grow to MaxLen elements and no further
        /\ (is_list(self) /\ key.py = "int" /\ key.val >= Len(self.value))
               => Len(self.value) < MaxLen
        /\ Called("__setitem__", <<key, value>>, __setitem__(self, key, value))

Filter ==
    \E projection_expressions \in ProjectionLists :
        Called("filter", <<projection_expressions>>,
               ReturnNone(filter(self, projection_expressions)))

Add == \E other \in Operands : Called("__add__", <<other>>, __add__(self, other))

Sub == \E other \in Operands : Called("__sub__", <<other>>, __sub__(self, other))

Size == Called("size", <<>>, Return(self, size(self)))

ToJson == Called("to_json", <<>>, Return(self, to_json(self)))

\* Codes asked of get_human_type: the ten tags and texts that are none of them
AbbreviatedTypes ==
    { TagText(tag) : tag \in { BINARY_SET, NUMBER_SET, STRING_SET, DDB_STRING, NUMBER,
                               MAP, LIST, DDB_BOOLEAN, BINARY, NULL } }
    \cup { <<>>, <<"X">>, <<"s", "s">>, <<"S", "T", "R", "I", "N", "G">>,
           <<"_", "_", "d", "o", "c", "_", "_">> }

GetHumanType ==
    \E abbreviated_type \in AbbreviatedTypes :
        Called("get_human_type", <<abbreviated_type>>,
               Return(self, get_human_type(abbreviated_type)))

Next == SetItem \/ Filter \/ Add \/ Sub \/ Size \/ ToJson \/ GetHumanType

Spec == Init /\ [][Next]_vars

-----------------------------------------------------------------------------
(* Token *)

MINUS_SIGN == "-"
PLUS_SIGN == "+"
SPACE_SIGN == " "
EQUAL_SIGN == "="
OPEN_ROUND_BRACKET == "("
CLOSE_ROUND_BRACKET == ")"
COMMA == ","
SPACE == " "
DOT == "."
OPEN_SQUARE_BRACKET == "["
CLOSE_SQUARE_BRACKET == "]"

SPECIAL_CHARACTERS ==
    { MINUS_SIGN, PLUS_SIGN, SPACE_SIGN, EQUAL_SIGN, OPEN_ROUND_BRACKET,
      CLOSE_ROUND_BRACKET, COMMA, SPACE, DOT, OPEN_SQUARE_BRACKET,
      CLOSE_SQUARE_BRACKET }

ATTRIBUTE == 0
ATTRIBUTE_NAME == 1
ATTRIBUTE_VALUE == 2
WHITESPACE == 3
NUMBER_TOKEN == 4

\* A token's type is an int (a placeholder kind) or a str (a special
\* character): a Python value, so that comparing the two kinds is False.
Token(token_type, value) == [type |-> token_type, value |-> value]

-----------------------------------------------------------------------------
(* ExpressionTokenizer *)

isalnum(character) == character \in AsciiLetters \cup Digits \cup UnicodeLetters

is_simple_token_character(character) ==
    isalnum(character) \/ character \in {"_", ":", "#"}

is_possible_token_boundary(character) ==
    character \in SPECIAL_CHARACTERS \/ ~is_simple_token_character(character)

\* "$" of a Python regular expression: the end, or just before a final newline
AtDollar(s, body) == s = body \/ s = body \o <<"\n">>

\* the grammar with a letter required first: ^[a-zA-Z][a-zA-Z0-9_]*$
is_expression_attribute_letter_first(input_string) ==
    \E n \in 1..Len(input_string) :
        /\ AtDollar(input_string, SubSeq(input_string, 1, n))
        /\ input_string[1] \in AsciiLetters
        /\ \A i \in 2..n : input_string[i] \in AsciiLetters \cup Digits \cup {"_"}

\* ^[a-zA-Z0-9][a-zA-Z0-9_]*$
is_expression_attribute(input_string) ==
    \E n \in 1..Len(input_string) :
        /\ AtDollar(input_string, SubSeq(input_string, 1, n))
        /\ input_string[1] \in AsciiLetters \cup Digits
        /\ \A i \in 2..n : input_string[i] \in AsciiLetters \cup Digits \cup {"_"}

is_expression_attribute_name(input_string) ==
    /\ startswith(input_string, <<"#">>)
    /\ is_expression_attribute(SliceFrom(input_string, 1))

\* ^:[a-zA-Z0-9_]*$
is_expression_attribute_value(input_string) ==
    \E n \in 1..Len(input_string) :
        /\ AtDollar(input_string, SubSeq(input_string, 1, n))
        /\ input_string[1] = ":"
        /\ \A i \in 2..n : input_string[i] \in AsciiLetters \cup Digits \cup {"_"}

\* re.compile("[0-9]+").match(input_str): a match at the start of the text,
\* which need not reach its end
is_numeric(input_str) ==
    \E n \in 1..Len(input_str) : \A i \in 1..n : input_str[i] \in Digits

\* The tokenizer's fields after a method, and the exception the method raised
Went(tokens, staged) ==
    [token_list |-> tokens, staged_characters |-> staged, exc |-> "None", args |-> <<>>]
Raised(tokens, staged, exc, args) ==
    [token_list |-> tokens, staged_characters |-> staged, exc |-> exc, args |-> args]

\* the near-context taken from the last token alone
raise_unexpected_token_last_only(tokens, staged) ==
    LET n == Len(tokens)
        near == IF n = 0 THEN <<>> ELSE tokens[n].value
    IN  Raised(tokens, staged, "InvalidTokenException", <<staged[1], near \o staged>>)

raise_unexpected_token(tokens, staged) ==
    LET n == Len(tokens)
        near == IF n = 0 THEN <<>>
                ELSE IF n = 1 THEN tokens[n].value
                ELSE IF tokens[n].type = PyInt(WHITESPACE)
                     THEN tokens[n - 1].value \o tokens[n].value
                     ELSE tokens[n].value
        problematic_token == staged[1]
    IN  Raised(tokens, staged, "InvalidTokenException",
               <<problematic_token, near \o staged>>)

add_token(tokens, token_type, token_value) ==
    Append(tokens, Token(token_type, token_value))

\* add_token_from_stage without self.staged_characters = ""
add_token_from_stage_keeps_stage(tokens, staged, token_type) ==
    Went(add_token(tokens, token_type, staged), staged)

add_token_from_stage(tokens, staged, token_type) ==
    Went(add_token(tokens, token_type, staged), <<>>)

process_staged_characters(tokens, staged) ==
    IF Len(staged) = 0 THEN Went(tokens, staged)
    ELSE IF startswith(staged, <<"#">>)
    THEN IF is_expression_attribute_name(staged)
         THEN add_token_from_stage(tokens, staged, PyInt(ATTRIBUTE_NAME))
         ELSE Raised(tokens, staged, "InvalidExpressionAttributeNameKey", <<staged>>)
    ELSE IF is_numeric(staged)
    THEN add_token_from_stage(tokens, staged, PyInt(NUMBER_TOKEN))
    ELSE IF is_expression_attribute(staged)
    THEN add_token_from_stage(tokens, staged, PyInt(ATTRIBUTE))
    ELSE IF is_expression_attribute_value(staged)
    THEN add_token_from_stage(tokens, staged, PyInt(ATTRIBUTE_VALUE))
    ELSE raise_unexpected_token(tokens, staged)

\* every space given a Whitespace token of its own
handle_boundary_no_grouping(tokens, staged, character) ==
    IF character = SPACE
    THEN Went(add_token(tokens, PyInt(WHITESPACE), <<character>>), staged)
    ELSE IF character \in SPECIAL_CHARACTERS
    THEN Went(add_token(tokens, PyStr(character), <<character>>), staged)
    ELSE IF ~is_simple_token_character(character)
    THEN raise_unexpected_token(tokens, staged \o <<character>>)
    ELSE Raised(tokens, staged, "NotImplementedError", <<character>>)

\* The else branch of the loop body, after process_staged_characters
handle_boundary(tokens, staged, character) ==
    IF character = SPACE
    THEN IF Len(tokens) > 0 /\ tokens[Len(tokens)].type = PyInt(WHITESPACE)
         THEN Went([tokens EXCEPT ![Len(tokens)].value = @ \o <<character>>], staged)
         ELSE Went(add_token(tokens, PyInt(WHITESPACE), <<character>>), staged)
    ELSE IF character \in SPECIAL_CHARACTERS
    THEN Went(add_token(tokens, PyStr(character), <<character>>), staged)
    ELSE IF ~is_simple_token_character(character)
    THEN raise_unexpected_token(tokens, staged \o <<character>>)
    ELSE Raised(tokens, staged, "NotImplementedError", <<character>>)

\* One iteration of the for loop of _make_list
loop_body(tokens, staged, character) ==
    IF ~is_possible_token_boundary(character)
    THEN Went(tokens, staged \o <<character>>)
    ELSE LET p == process_staged_characters(tokens, staged)
         IN  IF p.exc # "None" THEN p
             ELSE handle_boundary(p.token_list, p.staged_characters, character)

-----------------------------------------------------------------------------
(* make_list as a state machine: one step per character, then the return *)

Alphabet == { "a", "1", "_", ":", "#", " ", ".", "!", "é" }

ExampleInputs ==
    { <<"a", " ", "=", " ", ":", "v", "a", "l">>,
      <<"#", "n", "a", "m", "e", ".", "b">>,
      <<"#", "1", "a", "b", "c">>,
      <<"1", "a", "b", "c">>,
      <<"a", "!", "b">>,
      <<"a", " ", " ", " ", "b">>,
      <<"a", " ", "\t", "b">> }

Inputs == SeqsUpTo(Alphabet, MaxInput) \cup ExampleInputs

Scanning == [status |-> "scanning", exc |-> "None", args |-> <<>>, ret |-> <<>>]

NoValue ==
    /\ self = <<>>
    /\ last = <<>>

TokenizerInit ==
    /\ input_expression_str \in Inputs
    /\ pos = 0
    /\ token_list = <<>>
    /\ staged_characters = <<>>
    /\ outcome = Scanning
    /\ NoValue

\* What a method left in the tokenizer's fields; an exception ends make_list
Leave(r, returns) ==
    /\ token_list' = r.token_list
    /\ staged_characters' = r.staged_characters
    /\ outcome' = IF r.exc # "None"
                  THEN [status |-> "raised", exc |-> r.exc, args |-> r.args, ret |-> <<>>]
                  ELSE IF returns
                  THEN [status |-> "returned", exc |-> "None", args |-> <<>>,
                        ret |-> <<r.token_list>>]
                  ELSE outcome

StageCharacter ==
    /\ outcome.status = "scanning"
    /\ pos < Len(input_expression_str)
    /\ ~is_possible_token_boundary(input_expression_str[pos + 1])
    /\ pos' = pos + 1
    /\ Leave(loop_body(token_list, staged_characters, input_expression_str[pos + 1]), FALSE)
    /\ UNCHANGED <<input_expression_str, valueVars>>

TokenBoundary ==
    /\ outcome.status = "scanning"
    /\ pos < Len(input_expression_str)
    /\ is_possible_token_boundary(input_expression_str[pos + 1])
    /\ pos' = pos + 1
    /\ Leave(loop_body(token_list, staged_characters, input_expression_str[pos + 1]), FALSE)
    /\ UNCHANGED <<input_expression_str, valueVars>>

EndOfInput ==
    /\ outcome.status = "scanning"
    /\ pos = Len(input_expression_str)
    /\ Leave(process_staged_characters(token_list, staged_characters), TRUE)
    /\ UNCHANGED <<input_expression_str, pos, valueVars>>

TokenizerNext == StageCharacter \/ TokenBoundary \/ EndOfInput

TokenizerSpec == TokenizerInit /\ [][TokenizerNext]_vars

-----------------------------------------------------------------------------
(* Properties of the typed value, checked under Spec *)

IsCall(op) == last.op = op

\* C1: constructing a DynamoType from v.to_json() yields a value equal to v,
\* by tag and by value, for every tag and through nested Lists and Maps.
RoundTrip ==
    IsCall("to_json") =>
        /\ last.raised = "None"
        /\ __eq__(DynamoType(last.ret[1]), last.pre)
        /\ __eq__(last.pre, DynamoType(last.ret[1]))

\* A List holding a Map was serialized and constructed again.
RoundTripWitness ==
    /\ IsCall("to_json")
    /\ is_list(last.pre)
    /\ \E i \in 1..Len(last.pre.value) : is_map(last.pre.value[i])
    /\ DynamoType(last.ret[1]) = last.pre

\* The nested roots of a projection list, and the tail paths under a root,
\* read off the expressions character by character.
NestedRoots(P) ==
    UNION { { SubSeq(e, 1, i - 1) :
                i \in { i \in 1..Len(e) : e[i] = "." /\ \A j \in 1..(i - 1) : e[j] # "." } } :
            e \in P }

TailPaths(P, root) ==
    { SubSeq(e, Len(root) + 2, Len(e)) :
        e \in { e \in P : /\ Len(e) > Len(root)
                          /\ SubSeq(e, 1, Len(root)) = root
                          /\ e[Len(root) + 1] = "." } }

RECURSIVE Projects(_, _, _)
Projects(before, after, P) ==
    IF before.type # MAP THEN after = before
    ELSE /\ after.type = MAP
         /\ DOMAIN after.value =
                { k \in DOMAIN before.value : k \in P \/ k \in NestedRoots(P) }
         /\ \A k \in DOMAIN after.value :
                IF k \in NestedRoots(P)
                THEN Projects(before.value[k], after.value[k], TailPaths(P, k))
                ELSE after.value[k] = before.value[k]

\* C2: after filter(P) a Map holds, at every nesting depth, exactly the entries
\* P names: a key survives iff it is in P verbatim or is a nested root of P;
\* under a nested root a child Map is filtered by the tail paths; no key is
\* added and retained leaves are unchanged.
FilterKeepsExactlyProjected ==
    IsCall("filter") =>
        /\ last.raised = "None"
        /\ Projects(last.pre, self, last.args[1])

\* Map{a, b: {c, d}} filtered by ["a", "b.c"] keeps a and b.c and drops b.d.
FilterWitness ==
    /\ IsCall("filter")
    /\ last.args[1] = { <<"a">>, <<"b", ".", "c">> }
    /\ is_map(last.pre)
    /\ DOMAIN last.pre.value = { <<"a">>, <<"b">> }
    /\ is_map(last.pre.value[<<"b">>])
    /\ DOMAIN last.pre.value[<<"b">>].value = { <<"c">>, <<"d">> }
    /\ DOMAIN self.value = { <<"a">>, <<"b">> }
    /\ DOMAIN self.value[<<"b">>].value = { <<"c">> }
    /\ self.value[<<"a">>] = last.pre.value[<<"a">>]

IsListSetItem == IsCall("__setitem__") /\ is_list(last.pre) /\ last.args[1].py = "int"

Appended(before, after, x) ==
    /\ Len(after.value) = Len(before.value) + 1
    /\ after.value[Len(after.value)] = x
    /\ \A j \in 1..Len(before.value) : after.value[j] = before.value[j]

\* Element at (0-based, from the end when negative) is x, the rest is as before
Overwritten(before, after, at, x) ==
    /\ Len(after.value) = Len(before.value)
    /\ \A j \in 0..(Len(before.value) - 1) :
           after.value[j + 1] =
               IF j = (IF at < 0 THEN at + Len(before.value) ELSE at)
               THEN x ELSE before.value[j + 1]

\* C3 as stated: on a List, v[i] = x appends when i >= length and overwrites
\* element i in place whenever i < length, without an error.
ListSetItemAsClaimed ==
    IsListSetItem =>
        LET i == last.args[1].val
        IN  /\ last.raised = "None"
            /\ self.type = LIST
            /\ IF i >= Len(last.pre.value)
               THEN Appended(last.pre, self, last.args[2])
               ELSE Overwritten(last.pre, self, i, last.args[2])

\* C3 as amended: i >= length appends (however large i is); -length <= i <
\* length overwrites element i in place, counted from the end when negative;
\* i < -length raises IndexError and leaves the List as it was.
ListSetItem ==
    IsListSetItem =>
        LET i == last.args[1].val
            n == Len(last.pre.value)
        IN  /\ self.type = LIST
            /\ IF i >= n
               THEN last.raised = "None" /\ Appended(last.pre, self, last.args[2])
               ELSE IF i >= 0 - n
               THEN last.raised = "None" /\ Overwritten(last.pre, self, i, last.args[2])
               ELSE last.raised = "IndexError" /\ self = last.pre

\* An index beyond the length appended the element.
ListSetItemWitness ==
    /\ IsListSetItem
    /\ last.args[1].val > Len(last.pre.value)
    /\ Len(last.pre.value) > 0
    /\ last.raised = "None"
    /\ self.value = Append(last.pre.value, last.args[2])

Utf8Length(text) == Len(text) + Cardinality({ i \in 1..Len(text) : text[i] \in UnicodeLetters })

\* str(raw): the text of a raw scalar
RawText(raw) ==
    IF raw.py = "bool"
    THEN IF raw.val THEN <<"T", "r", "u", "e">> ELSE <<"F", "a", "l", "s", "e">>
    ELSE raw.val

\* The byte accounting by tag; oneByteTags are the tags whose size is 1
RECURSIVE ReferenceSize(_, _)
ReferenceSize(v, oneByteTags) ==
    CASE v.type = NUMBER -> Len(v.value.val)
      [] v.type = NUMBER_SET ->
             SumSeq([i \in 1..Len(v.value) |-> Len(v.value[i].val)])
      [] v.type \in {STRING_SET, BINARY_SET} ->
             SumSeq([i \in 1..Len(v.value) |-> Utf8Length(v.value[i].val)])
      [] v.type = LIST ->
             SumSeq([i \in 1..Len(v.value) |-> ReferenceSize(v.value[i], oneByteTags)])
      [] v.type = MAP ->
             SumOver([k \in DOMAIN v.value |->
                         Utf8Length(k) + ReferenceSize(v.value[k], oneByteTags)],
                     DOMAIN v.value)
      [] v.type \in oneByteTags -> 1
      [] OTHER -> Utf8Length(RawText(v.value))

\* C4 as stated: size() is the byte accounting in which Boolean counts 1 and
\* every other scalar tag counts the byte length of its raw text.
SizeAsClaimed ==
    IsCall("size") => last.ret[1] = ReferenceSize(last.pre, {DDB_BOOLEAN})

\* C4 as amended: size() is the byte accounting in which Boolean and Null, whose
\* raw value is a bool, count 1 and String and Binary count the byte length of
\* their raw text.
SizeIsByteAccounting ==
    IsCall("size") =>
        /\ last.raised = "None"
        /\ last.ret[1] = ReferenceSize(last.pre, {DDB_BOOLEAN, NULL})
        /\ (last.pre = DynamoType(WireNumber) => last.ret[1] = 5)

\* Map{"a": String("bb")}.size() == 3
SizeWitness ==
    /\ IsCall("size")
    /\ last.pre = DynamoType(Dict(MAP, (<<"a">> :> WireString)))
    /\ last.ret[1] = 3

Failed == last.ret = <<>> /\ self = last.pre

\* C5: add of operands with different tags raises TypeError (TypeMismatch), add
\* of operands with the same non-Number tag raises IncorrectDataType, subtract
\* raises TypeError when the tags differ or the tag is not Number; a failing
\* call produces no result and leaves the operand as it was.
ArithmeticErrors ==
    /\ IsCall("__add__") =>
           /\ last.pre.type # last.args[1].type => last.raised = "TypeError"
           /\ (last.pre.type = last.args[1].type /\ last.pre.type # NUMBER)
                  => last.raised = "IncorrectDataType"
    /\ (IsCall("__sub__")
            /\ (last.pre.type # last.args[1].type \/ last.pre.type # NUMBER))
           => last.raised = "TypeError"
    /\ ((IsCall("__add__") \/ IsCall("__sub__")) /\ last.raised # "None")
           => Failed

\* String + String raised IncorrectDataType.
ArithmeticErrorsWitness ==
    /\ IsCall("__add__")
    /\ last.pre.type = DDB_STRING
    /\ last.args[1].type = DDB_STRING
    /\ last.raised = "IncorrectDataType"
    /\ Failed

\* C10: v[k] = x with an integer key on a value that is not a List, or a text
\* key on a value that is not a Map, raises TypeError (TypeMismatch); a key
\* that is neither raises NotImplementedError (UnsupportedKeyType); the value
\* is left unchanged in each case.
SetItemMismatchRaises ==
    IsCall("__setitem__") =>
        LET key == last.args[1]
        IN  /\ (key.py = "int" /\ ~is_list(last.pre))
                   => last.raised = "TypeError" /\ self = last.pre
            /\ (key.py = "str" /\ ~is_map(last.pre))
                   => last.raised = "TypeError" /\ self = last.pre
            /\ key.py \notin {"int", "str"}
                   => last.raised = "NotImplementedError" /\ self = last.pre

\* The ten tag codes with their identifier names, underscores as spaces
HumanTypeNames ==
    { <<<<"B", "S">>, <<"B", "I", "N", "A", "R", "Y", " ", "S", "E", "T">>>>,
      <<<<"N", "S">>, <<"N", "U", "M", "B", "E", "R", " ", "S", "E", "T">>>>,
      <<<<"S", "S">>, <<"S", "T", "R", "I", "N", "G", " ", "S", "E", "T">>>>,
      <<<<"S">>, <<"S", "T", "R", "I", "N", "G">>>>,
      <<<<"N">>, <<"N", "U", "M", "B", "E", "R">>>>,
      <<<<"M">>, <<"M", "A", "P">>>>,
      <<<<"L">>, <<"L", "I", "S", "T">>>>,
      <<<<"B", "O", "O", "L">>, <<"B", "O", "O", "L", "E", "A", "N">>>>,
      <<<<"B">>, <<"B", "I", "N", "A", "R", "Y">>>>,
      <<<<"N", "U", "L", "L">>, <<"N", "U", "L", "L">>>> }

IsTagCode(code) == \E entry \in HumanTypeNames : entry[1] = code

NameOfCode(code) == (CHOOSE entry \in HumanTypeNames : entry[1] = code)[2]

\* C11 as stated: get_human_type maps each of the ten tag codes to its
\* identifier name in lower case with underscores replaced by spaces, and any
\* other code to itself, without raising.
HumanTypeLowerCase ==
    IsCall("get_human_type") =>
        /\ last.raised = "None"
        /\ last.ret[1] = IF IsTagCode(last.args[1])
                         THEN lower(NameOfCode(last.args[1]))
                         ELSE last.args[1]

\* C11 as amended: get_human_type maps each of the ten tag codes to its
\* identifier name as written, in upper case, with underscores replaced by
\* spaces (SS -> "STRING SET"), and any other code to itself, without raising.
HumanTypeUpperCase ==
    IsCall("get_human_type") =>
        /\ last.raised = "None"
        /\ self = last.pre
        /\ last.ret[1] = IF IsTagCode(last.args[1])
                         THEN NameOfCode(last.args[1])
                         ELSE last.args[1]

\* SS was looked up and gave "STRING SET".
HumanTypeWitness ==
    /\ IsCall("get_human_type")
    /\ last.args[1] = <<"S", "S">>
    /\ last.ret[1] = <<"S", "T", "R", "I", "N", "G", " ", "S", "E", "T">>

-----------------------------------------------------------------------------
(* Properties of the tokenizer, checked under TokenizerSpec *)

IsWhitespace(token) == token.type = PyInt(WHITESPACE)

\* The texts of the Whitespace tokens of a token list, in order
RECURSIVE WhitespaceTexts(_)
WhitespaceTexts(tokens) ==
    IF tokens = <<>> THEN <<>>
    ELSE (IF IsWhitespace(Head(tokens)) THEN <<Head(tokens).value>> ELSE <<>>)
             \o WhitespaceTexts(Tail(tokens))

\* The maximal runs of spaces of a text, in order
RECURSIVE SpaceRuns(_)
SpaceRuns(text) ==
    IF text = <<>> THEN <<>>
    ELSE IF Head(text) # " " THEN SpaceRuns(Tail(text))
    ELSE LET n == CHOOSE n \in 1..Len(text) :
                      /\ \A i \in 1..n : text[i] = " "
                      /\ n = Len(text) \/ text[n + 1] # " "
         IN  <<SubSeq(text, 1, n)>> \o SpaceRuns(SubSeq(text, n + 1, Len(text)))

NoAdjacentWhitespace(tokens) ==
    \A i \in 1..(Len(tokens) - 1) : ~(IsWhitespace(tokens[i]) /\ IsWhitespace(tokens[i + 1]))

\* C6: every maximal run of spaces yields exactly one Whitespace token whose
\* text is the whole run; at every step of the scan and in the list returned no
\* two adjacent tokens are both Whitespace.
WhitespaceGrouped ==
    /\ NoAdjacentWhitespace(token_list)
    /\ outcome.status \in {"scanning", "returned"} =>
           WhitespaceTexts(token_list) = SpaceRuns(SubSeq(input_expression_str, 1, pos))
    /\ outcome.status = "returned" =>
           /\ NoAdjacentWhitespace(outcome.ret[1])
           /\ WhitespaceTexts(outcome.ret[1]) = SpaceRuns(input_expression_str)

\* "a   b" gave one 3-character Whitespace token between two Attribute tokens.
WhitespaceGroupedWitness ==
    /\ input_expression_str = <<"a", " ", " ", " ", "b">>
    /\ outcome.status = "returned"
    /\ outcome.ret[1] = << Token(PyInt(ATTRIBUTE), <<"a">>),
                           Token(PyInt(WHITESPACE), <<" ", " ", " ">>),
                           Token(PyInt(ATTRIBUTE), <<"b">>) >>

AllDigits(text) == Len(text) > 0 /\ \A i \in 1..Len(text) : text[i] \in Digits

\* C7: a finalized buffer that does not start with "#" is a Number token if
\* and only if it consists solely of decimal digits.
NumberTokenIffAllDigits ==
    \A i \in 1..Len(token_list) :
        LET token == token_list[i]
        IN  token.type \in {PyInt(ATTRIBUTE), PyInt(ATTRIBUTE_VALUE), PyInt(NUMBER_TOKEN)}
                => (token.type = PyInt(NUMBER_TOKEN) <=> AllDigits(token.value))

HashOneABC == <<"#", "1", "a", "b", "c">>

\* "#" followed by [A-Za-z0-9][A-Za-z0-9_]*
NamePlaceholderGrammar(text) ==
    /\ Len(text) >= 2
    /\ text[1] = "#"
    /\ text[2] \in AsciiLetters \cup Digits
    /\ \A i \in 3..Len(text) : text[i] \in AsciiLetters \cup Digits \cup {"_"}

\* C8 as stated: tokenizing "#1abc" fails with
\* InvalidExpressionAttributeNameKey and returns no token list.
HashDigitNameRejected ==
    (input_expression_str = HashOneABC /\ outcome.status # "scanning") =>
        /\ outcome.status = "raised"
        /\ outcome.exc = "InvalidExpressionAttributeNameKey"
        /\ outcome.ret = <<>>

\* C8 as amended: tokenizing "#1abc" returns the single AttributeName token
\* "#1abc"; InvalidExpressionAttributeNameKey is raised, with no token list
\* returned, exactly for a "#" buffer that is not "#" followed by
\* [A-Za-z0-9][A-Za-z0-9_]*, and every AttributeName token is of that grammar.
HashDigitNameAccepted ==
    /\ (input_expression_str = HashOneABC /\ outcome.status # "scanning") =>
           /\ outcome.status = "returned"
           /\ outcome.ret[1] = << Token(PyInt(ATTRIBUTE_NAME), HashOneABC) >>
    /\ outcome.exc = "InvalidExpressionAttributeNameKey" =>
           /\ outcome.ret = <<>>
           /\ outcome.args[1][1] = "#"
           /\ ~NamePlaceholderGrammar(outcome.args[1])
    /\ \A i \in 1..Len(token_list) :
           token_list[i].type = PyInt(ATTRIBUTE_NAME)
               => NamePlaceholderGrammar(token_list[i].value)

\* "#1abc" was tokenized to the end and returned.
HashDigitNameWitness ==
    /\ input_expression_str = HashOneABC
    /\ outcome.status = "returned"
    /\ Len(outcome.ret[1]) = 1

Punctuation == {"-", "+", " ", "=", "(", ")", ",", ".", "[", "]"}

Unexpected(character) ==
    /\ character \notin Punctuation
    /\ character \notin AsciiLetters \cup Digits \cup UnicodeLetters \cup {"_", ":", "#"}

\* The prior-token context of an InvalidTokenException
PriorContext(tokens) ==
    IF Len(tokens) = 0 THEN <<>>
    ELSE IF Len(tokens) = 1 THEN tokens[1].value
    ELSE IF IsWhitespace(tokens[Len(tokens)])
         THEN tokens[Len(tokens) - 1].value \o tokens[Len(tokens)].value
         ELSE tokens[Len(tokens)].value

UnexpectedCharacterStep ==
    LET character == input_expression_str[pos + 1]
        finalized == process_staged_characters(token_list, staged_characters)
    IN  (/\ outcome.status = "scanning"
         /\ pos < Len(input_expression_str)
         /\ Unexpected(character)
         /\ finalized.exc = "None")
        => outcome' = [status |-> "raised", exc |-> "InvalidTokenException",
                       args |-> <<character,
                                  PriorContext(finalized.token_list) \o <<character>>>>,
                       ret |-> <<>>]

ABangB == <<"a", "!", "b">>

\* C9: a character that is neither simple nor punctuation, met after a buffer
\* that finalizes, aborts the scan at once with InvalidTokenException citing
\* that character and the prior-token context followed by it, and no token
\* list is returned; "a!b" fails citing "!" near "a!".
UnexpectedCharacterAborts ==
    /\ [][UnexpectedCharacterStep]_vars
    /\ []((input_expression_str = ABangB /\ outcome.status # "scanning") =>
              outcome = [status |-> "raised", exc |-> "InvalidTokenException",
                         args |-> <<"!", <<"a", "!">>>>, ret |-> <<>>])

\* An unexpected character after a token and a run of spaces was cited with
\* both before it.
UnexpectedCharacterWitness ==
    /\ outcome.status = "raised"
    /\ outcome.exc = "InvalidTokenException"
    /\ outcome.ret = <<>>
    /\ input_expression_str = <<"a", " ", "!">>
    /\ outcome.args = <<"!", <<"a", " ", "!">>>>

RECURSIVE JoinedTexts(_)
\* The texts of a token list, one after the other
JoinedTexts(tokens) ==
    IF tokens = <<>> THEN <<>>
    ELSE Head(tokens).value \o JoinedTexts(Tail(tokens))

\* C12: when make_list returns, the texts of the returned tokens concatenated
\* in order are exactly the input string, no token has empty text, and the
\* staging buffer is empty.
TokenizationLossless ==
    outcome.status = "returned" =>
        /\ JoinedTexts(outcome.ret[1]) = input_expression_str
        /\ \A i \in 1..Len(outcome.ret[1]) : outcome.ret[1][i].value # <<>>
        /\ staged_characters = <<>>

\* "a = :val" came back as five tokens whose texts spell the input.
TokenizationLosslessWitness ==
    /\ input_expression_str = <<"a", " ", "=", " ", ":", "v", "a", "l">>
    /\ outcome.status = "returned"
    /\ Len(outcome.ret[1]) = 5
    /\ outcome.ret[1][5].value = <<":", "v", "a", "l">>
    /\ JoinedTexts(outcome.ret[1]) = input_expression_str

=============================================================================
